---- MODULE Spec2Model ----
(***************************************************************************)
(* Model of the professor scraping pipeline: the two-stage crawl of        *)
(* scrape_professors.py (find_and_extract_professors), its validators, and *)
(* the filter / in-batch dedup / bulk lookup / per-record upsert of        *)
(* supabase_add.py (add_professors_to_supabase).                           *)
(* The /scrape endpoint of main.py with scrape_and_store of scraper.py is   *)
(* modelled beside it, on its own table.                                   *)
(*                                                                         *)
(* Python text (str) is a tuple of one-character strings, so that lower(), *)
(* strip(), split(), "in" and the regular expression are computed on the   *)
(* characters.  Python's None is the tuple None below.                     *)
(***************************************************************************)
EXTENDS Integers, Sequences, FiniteSets, TLC

\* ------------------------------------------------------------------ text

None == <<"None">>

LowerLetters == <<"a", "b", "c", "d", "e", "f", "g", "h", "i", "j", "k", "l", "m", "n", "o", "p", "q", "r", "s", "t", "u", "v", "w", "x", "y", "z">>

UpperLetters == <<"A", "B", "C", "D", "E", "F", "G", "H", "I", "J", "K", "L", "M", "N", "O", "P", "Q", "R", "S", "T", "U", "V", "W", "X", "Y", "Z">>

DigitChars == {"0", "1", "2", "3", "4", "5", "6", "7", "8", "9"}

IsUpper(c) == \E i \in 1..26 : UpperLetters[i] = c

IsAlpha(c) == \E i \in 1..26 : LowerLetters[i] = c \/ UpperLetters[i] = c

IsSpace(c) == c \in {" ", "\t", "\n", "\r"}

\* bool(x) of an Optional[str]: None and "" are falsy
Truthy(s) == s /= None /\ s /= <<>>

\* (x or "")
OrEmpty(s) == IF Truthy(s) THEN s ELSE <<>>

SetMin(S) == CHOOSE m \in S : \A n \in S : m <= n

SetMax(S) == CHOOSE m \in S : \A n \in S : m >= n

\* str.lower()
LowerChar(c) == IF IsUpper(c) THEN LowerLetters[CHOOSE i \in 1..26 : UpperLetters[i] = c] ELSE c

\* [F(x) for x in s]
RECURSIVE MapSeq(_, _)
MapSeq(F(_), s) == IF s = <<>> THEN <<>> ELSE <<F(Head(s))>> \o MapSeq(F, Tail(s))

Lower(s) == MapSeq(LowerChar, s)

\* str.strip()
Strip(s) ==
  LET keep == {i \in 1..Len(s) : ~IsSpace(s[i])}
  IN  IF keep = {} THEN <<>> ELSE SubSeq(s, SetMin(keep), SetMax(keep))

\* p in s (substring)
Contains(s, p) == \E i \in 1..(Len(s) - Len(p) + 1) : SubSeq(s, i, i + Len(p) - 1) = p

\* s.startswith(p)
StartsWith(s, p) == Len(s) >= Len(p) /\ SubSeq(s, 1, Len(p)) = p

\* str.isdigit()
IsDigitStr(s) == Len(s) > 0 /\ \A i \in 1..Len(s) : s[i] \in DigitChars

\* re.search(r'[a-zA-Z]', s)
HasLetter(s) == \E i \in 1..Len(s) : IsAlpha(s[i])

\* str.split(): the maximal runs of non-whitespace characters, in order
RECURSIVE SplitFrom(_, _)
SplitFrom(s, i) ==
  IF i > Len(s) THEN <<>>
  ELSE IF IsSpace(s[i]) THEN SplitFrom(s, i + 1)
  ELSE LET stop == SetMin({j \in i..Len(s) : j = Len(s) \/ IsSpace(s[j + 1])})
       IN  <<SubSeq(s, i, stop)>> \o SplitFrom(s, stop + 1)

Split(s) == SplitFrom(s, 1)

\* s.split(sep)[0] for a one-character separator
BeforeFirst(s, sep) ==
  LET at == {i \in 1..Len(s) : s[i] = sep}
  IN  IF at = {} THEN s ELSE SubSeq(s, 1, SetMin(at) - 1)

\* s.split(","): the pieces between the commas, empty pieces included
RECURSIVE SplitComma(_)
SplitComma(s) ==
  LET at == {i \in 1..Len(s) : s[i] = ","}
  IN  IF at = {} THEN <<s>>
      ELSE <<SubSeq(s, 1, SetMin(at) - 1)>> \o SplitComma(SubSeq(s, SetMin(at) + 1, Len(s)))

\* ------------------------------------------------------------ validators

LocalPartChars == {".", "_", "%", "+", "-"}

DomainChars == {".", "-"}

IsLocalChar(c) == IsAlpha(c) \/ c \in DigitChars \/ c \in LocalPartChars

IsDomainChar(c) == IsAlpha(c) \/ c \in DigitChars \/ c \in DomainChars

\* re.match(r'^[a-zA-Z0-9._%+-]+@[a-zA-Z0-9.-]+\.[a-zA-Z]{2,}$', email);
\* '$' also matches just before one trailing newline
EmailPatternUpTo(s, n) ==
  \E a \in 2..n : \E d \in (a + 2)..(n - 2) :
     /\ s[a] = "@"
     /\ s[d] = "."
     /\ \A i \in 1..(a - 1) : IsLocalChar(s[i])
     /\ \A i \in (a + 1)..(d - 1) : IsDomainChar(s[i])
     /\ \A i \in (d + 1)..n : IsAlpha(s[i])

MatchesEmailPattern(s) ==
  \/ EmailPatternUpTo(s, Len(s))
  \/ Len(s) > 0 /\ s[Len(s)] = "\n" /\ EmailPatternUpTo(s, Len(s) - 1)

fake_patterns ==
  { <<"e", "x", "a", "m", "p", "l", "e", ".", "c", "o", "m">>,
    <<"t", "e", "s", "t", ".", "c", "o", "m">>,
    <<"f", "a", "k", "e", ".", "c", "o", "m">>,
    <<"d", "u", "m", "m", "y", ".", "c", "o", "m">>,
    <<"p", "l", "a", "c", "e", "h", "o", "l", "d", "e", "r", ".", "c", "o", "m">>,
    <<"s", "a", "m", "p", "l", "e", ".", "c", "o", "m">>,
    <<"l", "o", "r", "e", "m", ".", "i", "p", "s", "u", "m">> }

\* is_valid_email with "len(local_part) <= 2" for "len(local_part) < 2"
IsValidEmailLongLocal(email) ==
  IF ~Truthy(email) THEN FALSE
  ELSE IF ~MatchesEmailPattern(email) THEN FALSE
  ELSE LET lowered == Lower(email)
           local_part == BeforeFirst(lowered, "@")
       IN  IF \E p \in fake_patterns : Contains(lowered, p) THEN FALSE
           ELSE ~(Len(local_part) <= 2 \/ IsDigitStr(local_part))

is_valid_email(email) ==
  IF ~Truthy(email) THEN FALSE
  ELSE IF ~MatchesEmailPattern(email) THEN FALSE
  ELSE LET lowered == Lower(email)
           local_part == BeforeFirst(lowered, "@")
       IN  IF \E p \in fake_patterns : Contains(lowered, p) THEN FALSE
           ELSE ~(Len(local_part) < 2 \/ IsDigitStr(local_part))

fake_name_patterns ==
  { <<"t", "e", "s", "t">>, <<"e", "x", "a", "m", "p", "l", "e">>, <<"s", "a", "m", "p", "l", "e">>, <<"d", "u", "m", "m", "y">>, <<"f", "a", "k", "e">>, <<"l", "o", "r", "e", "m">>, <<"i", "p", "s", "u", "m">>,
    <<"j", "o", "h", "n", " ", "d", "o", "e">>, <<"j", "a", "n", "e", " ", "d", "o", "e">>, <<"f", "i", "r", "s", "t", "n", "a", "m", "e", " ", "l", "a", "s", "t", "n", "a", "m", "e">>, <<"u", "n", "k", "n", "o", "w", "n">>, <<"n", "/", "a">>,
    <<"a", "n", "o", "n", "y", "m", "o", "u", "s">>, <<"v", "i", "s", "i", "t", "o", "r">>, <<"s", "t", "a", "f", "f">>, <<"f", "a", "c", "u", "l", "t", "y">>, <<"s", "c", " ", "p", "h", "d", " ", "s", "t", "u", "d", "e", "n", "t", "s">>,
    <<"s", "e", " ", "p", "h", "d", " ", "s", "t", "u", "d", "e", "n", "t", "s">>, <<"p", "r", "o", "f", "e", "s", "s", "o", "r">>, <<"i", "n", "s", "t", "r", "u", "c", "t", "o", "r">>, <<"l", "e", "c", "t", "u", "r", "e", "r">>, <<"r", "e", "s", "e", "a", "r", "c", "h", "e", "r">> }

is_valid_name(name) ==
  IF ~Truthy(name) THEN FALSE
  ELSE LET n == Strip(name)
           name_parts == Split(n)
           name_lower == Lower(n)
       IN  IF Len(n) < 2 THEN FALSE
           ELSE IF ~HasLetter(n) THEN FALSE
           ELSE IF Len(name_parts) < 2 THEN FALSE
           ELSE IF \E k \in 1..Len(name_parts) :
                     \/ Len(name_parts[k]) < 1
                     \/ ~HasLetter(name_parts[k])
                     \/ IsDigitStr(name_parts[k]) THEN FALSE
           ELSE ~(\E p \in fake_name_patterns : Contains(name_lower, p))

\* validate_professor_data(professor): name valid, email present and valid
\* validate_professor_data without its last test, "if not professor.email"
ValidateEmailOptional(professor) ==
  IF ~is_valid_name(professor.name) THEN FALSE
  ELSE IF Truthy(professor.email) /\ ~is_valid_email(professor.email) THEN FALSE
  ELSE TRUE

validate_professor_data(professor) ==
  IF ~is_valid_name(professor.name) THEN FALSE
  ELSE IF Truthy(professor.email) /\ ~is_valid_email(professor.email) THEN FALSE
  ELSE IF ~Truthy(professor.email) THEN FALSE
  ELSE TRUE

\* ----------------------------------------------------------- junk filter

placeholder_names ==
  { <<"N", "/", "A">>, <<"N", "o", "t", " ", "F", "o", "u", "n", "d">>, <<"F", "a", "c", "u", "l", "t", "y">>, <<"S", "t", "a", "f", "f">>, <<"V", "i", "s", "i", "t", "o", "r", "s">>,
    <<"S", "C", " ", "P", "h", "D", " ", "S", "t", "u", "d", "e", "n", "t", "s">>, <<"S", "E", " ", "P", "h", "D", " ", "S", "t", "u", "d", "e", "n", "t", "s">> }

placeholder_emails ==
  { <<"N", "/", "A">>, <<"u", "n", "k", "n", "o", "w", "n", "@", "e", "x", "a", "m", "p", "l", "e", ".", "c", "o", "m">>, <<"n", "o", "t", "f", "o", "u", "n", "d", "@", "e", "x", "a", "m", "p", "l", "e", ".", "c", "o", "m">>,
    <<"n", "u", "l", "l", "@", "e", "x", "a", "m", "p", "l", "e", ".", "c", "o", "m">>, <<"n", "o", "t", "_", "f", "o", "u", "n", "d", "@", "e", "x", "a", "m", "p", "l", "e", ".", "c", "o", "m">>, <<"f", "a", "c", "u", "l", "t", "y", "@", "e", "x", "a", "m", "p", "l", "e", ".", "c", "o", "m">>,
    <<"s", "c", "_", "p", "h", "d", "_", "s", "t", "u", "d", "e", "n", "t", "s", "@", "e", "x", "a", "m", "p", "l", "e", ".", "c", "o", "m">>, <<"s", "e", "_", "p", "h", "d", "_", "s", "t", "u", "d", "e", "n", "t", "s", "@", "e", "x", "a", "m", "p", "l", "e", ".", "c", "o", "m">>,
    <<"s", "t", "a", "f", "f", "@", "e", "x", "a", "m", "p", "l", "e", ".", "c", "o", "m">>, <<"v", "i", "s", "i", "t", "o", "r", "s", "@", "e", "x", "a", "m", "p", "l", "e", ".", "c", "o", "m">>, <<"u", "n", "k", "n", "o", "w", "n">> }

not_found_markers ==
  { <<"n", "o", "t", " ", "f", "o", "u", "n", "d">>, <<"p", "a", "g", "e", " ", "n", "o", "t", " ", "f", "o", "u", "n", "d">>, <<"c", "o", "n", "t", "e", "n", "t", " ", "n", "o", "t", " ", "f", "o", "u", "n", "d">> }

is_junk_entry(prof) ==
  LET name == Strip(OrEmpty(prof.name))
      email == Strip(OrEmpty(prof.email))
      summary == Lower(OrEmpty(prof.summary))
  IN  IF name \in placeholder_names THEN TRUE
      ELSE IF email \in placeholder_emails THEN TRUE
      ELSE IF ~Contains(email, <<"@">>) \/ StartsWith(email, <<"N", "/", "A">>) THEN TRUE
      ELSE IF \E x \in not_found_markers : Contains(summary, x) THEN TRUE
      ELSE FALSE

\* ------------------------------------------------------- bounds and input

\* most directory URLs in one call of find_and_extract_professors
MaxSources == 2

\* max_profiles_to_process, the per-source cap on profile URLs
MaxProfiles == 2

\* the runs of the script: C5 and C6 are about two of them
Runs == {1, 2}

\* ------------------------------------------------- JSON values and the web
\* extracted_content after json.loads: undecodable text, a scalar, a list or
\* a dict (its keys are the DOMAIN of fields); "empty" is no content at all.

JGarbage == [kind |-> "garbage"]

JEmpty == [kind |-> "empty"]

JScalar == [kind |-> "scalar"]

JList(items) == [kind |-> "list", items |-> items]

JDict(fields) == [kind |-> "dict", fields |-> fields]

\* research_topics: absent/None, a list of str, or (for a caller that passes
\* one) a comma-joined str
NoTopics == [t |-> "none"]

TopicsList(v) == [t |-> "list", v |-> v]

TopicsStr(s) == [t |-> "str", v |-> s]

Url(scheme, path) == [scheme |-> scheme, path |-> path]

Https(path) == Url("https", path)

\* pydantic HttpUrl: an absolute http(s) URL
IsHttpUrl(u) == u.scheme \in {"http", "https"}

Success(content) == [success |-> TRUE, extracted_content |-> content]

Failure == [success |-> FALSE, extracted_content |-> JEmpty]

Link(name, path) == [name |-> name, profile_url |-> Https(path)]

\* What the extraction backend answers for each profile page (stage 2).
DetailPage(u) ==
  CASE u.path = "p1" ->
         Success(JDict([name |-> <<"J", "o", " ", "L", "i">>, email |-> <<"j", "o", "@", "g", "m", "u", ".", "e", "d", "u">>,
                        university |-> <<"G", "M", "U">>, department |-> <<"M", "a", "t", "h">>,
                        research_topics |-> TopicsList(<< <<"M", "L">>, <<"P", "D", "E">> >>),
                        summary |-> <<"W", "o", "r", "k", "s", " ", "o", "n", " ", "M", "L">>]))
    [] u.path = "p2" ->
         Success(JList(<< JDict([name |-> <<"A", "l", " ", "B", "o">>, email |-> <<"J", "O", "@", "g", "m", "u", ".", "e", "d", "u">>,
                                 university |-> <<"G", "M", "U">>]) >>))
    [] u.path = "p3" ->
         Success(JDict([name |-> <<"C", "y", " ", "D", "o">>, email |-> <<"j", "o", "@", "g", "m", "u", ".", "e", "d", "u">>,
                        department |-> <<"S", "t", "a", "t", "s">>, summary |-> <<"T", "e", "a", "c", "h", "e", "s">>]))
    [] u.path = "p4" ->
         Success(JDict([name |-> <<"E", "d", " ", "F", "u">>, university |-> <<"V", "C", "U">>]))
    [] u.path = "p5" -> Failure
    [] u.path = "p6" -> Success(JGarbage)
    [] u.path = "p7" ->
         Success(JDict([name |-> <<"N", "o", "t", " ", "F", "o", "u", "n", "d">>, email |-> <<"j", "o", "@", "g", "m", "u", ".", "e", "d", "u">>]))
    [] u.path = "p8" ->
         Success(JDict([name |-> <<"G", "i", " ", "H", "o">>, email |-> <<"g", "h", "@", "v", "c", "u", ".", "e", "d", "u">>,
                        summary |-> <<"P", "a", "g", "e", " ", "N", "o", "t", " ", "F", "o", "u", "n", "d">>]))
    [] u.path = "p9" ->
         Success(JDict([name |-> <<"I", "k", " ", "J", "u">>, email |-> <<"i", "j", "@", "v", "c", "u", ".", "e", "d", "u">>,
                        university |-> <<"V", "C", "U">>, research_topics |-> TopicsList(<<>>)]))
    [] u.path = "p10" -> Success(JList(<<>>))
    [] u.path = "p11" -> Success(JDict([email |-> <<"k", "l", "@", "v", "c", "u", ".", "e", "d", "u">>]))
    [] u.path = "p12" -> Success(JScalar)
    [] OTHER -> Failure

BadLink == [name |-> <<"B", "a", "d">>, profile_url |-> Url("", "rel")]

\* What the extraction backend answers for each directory page (stage 1).
DirectoryPage(d) ==
  CASE d = "d1" -> Failure
    [] d = "d2" -> Success(JGarbage)
    [] d = "d3" ->
         Success(JDict([professors |-> << Link(<<"J", "o", " ", "L", "i">>, "p1"), Link(<<"A", "l", " ", "B", "o">>, "p2"),
                                          Link(<<"Y">>, "p6") >>]))
    [] d = "d4" ->
         Success(JList(<< JDict([error |-> TRUE,
                                 professors |-> << Link(<<"G", "i", " ", "H", "o">>, "p8") >>]),
                          JScalar,
                          JDict([professors |-> << Link(<<"C", "y", " ", "D", "o">>, "p3"), BadLink,
                                                   Link(<<"E", "d", " ", "F", "u">>, "p4"),
                                                   Link(<<"I", "k", " ", "J", "u">>, "p9") >>]) >>))
    [] d = "d5" ->
         Success(JDict([professors |-> << Link(<<"J", "o", " ", "L", "i">>, "p1"), BadLink >>]))
    [] d = "d6" ->
         Success(JList(<< JDict([professors |-> << Link(<<"X">>, "p5"),
                                                   Link(<<"Y">>, "p12") >>]) >>))
    [] d = "d7" ->
         Success(JList(<< JDict([professors |-> << Link(<<"N", "o", "t", " ", "F", "o", "u", "n", "d">>, "p7"),
                                                   Link(<<"G", "i", " ", "H", "o">>, "p8") >>]) >>))
    [] d = "d8" -> Success(JScalar)
    [] d = "d9" -> Success(JList(<<>>))
    [] d = "d10" ->
         Success(JDict([professors |-> << Link(<<"Z">>, "p10"), Link(<<"K">>, "p11") >>]))
    [] OTHER -> Failure

Directories == {"d1", "d2", "d3", "d4", "d5", "d6", "d7", "d8", "d9", "d10"}

\* ----------------------------------------------------------------- parsing

Get(d, k) == IF k \in DOMAIN d THEN d[k] ELSE None

\* ProfessorLink.model_validate(prof_data) succeeds
ProfessorLinkValid(prof_data) ==
  /\ "name" \in DOMAIN prof_data
  /\ prof_data.name /= None
  /\ "profile_url" \in DOMAIN prof_data
  /\ IsHttpUrl(prof_data.profile_url)

\* the inner loop over item['professors']: an invalid entry is skipped
ValidLinksOf(profs) == SelectSeq(profs, ProfessorLinkValid)

\* the loop over the items of a list response
RECURSIVE LinksOfItems(_)
LinksOfItems(items) ==
  IF items = <<>> THEN <<>>
  ELSE LET item == Head(items)
           take == /\ item.kind = "dict"
                   /\ "professors" \in DOMAIN item.fields
                   /\ ~("error" \in DOMAIN item.fields /\ item.fields.error)
       IN  (IF take THEN ValidLinksOf(item.fields.professors) ELSE <<>>)
             \o LinksOfItems(Tail(items))

\* FacultyPage.model_validate(raw_data) succeeds: every entry must validate
FacultyPageValid(raw_data) ==
  /\ "professors" \in DOMAIN raw_data.fields
  /\ \A k \in 1..Len(raw_data.fields.professors) :
        ProfessorLinkValid(raw_data.fields.professors[k])

\* Lines 198-241 up to the emptiness test: ok is FALSE when the source is
\* given up (json.loads or validation raised, or the shape is unexpected).
ParseLinks(raw_data) ==
  CASE raw_data.kind = "list" ->
         [ok |-> TRUE, links |-> LinksOfItems(raw_data.items)]
    [] raw_data.kind = "dict" ->
         IF FacultyPageValid(raw_data)
           THEN [ok |-> TRUE, links |-> raw_data.fields.professors]
           ELSE [ok |-> FALSE, links |-> <<>>]
    [] OTHER -> [ok |-> FALSE, links |-> <<>>]

\* the link list with the slice of line 234 left out
Untruncated(links, cap) == links

\* current_professor_links[:max_profiles_to_process]
Truncate(links, cap) ==
  IF Len(links) > cap THEN SubSeq(links, 1, cap) ELSE links

\* ProfessorSchema.model_validate(obj) succeeds: a dict with a str name, and
\* research_topics a list when given
ProfessorSchemaValid(obj) ==
  /\ obj.kind = "dict"
  /\ "name" \in DOMAIN obj.fields
  /\ obj.fields.name /= None
  /\ ("research_topics" \in DOMAIN obj.fields => obj.fields.research_topics.t /= "str")

\* the ProfessorSchema object: absent fields take their default None
ProfessorSchema(obj) ==
  [name            |-> obj.fields.name,
   email           |-> Get(obj.fields, "email"),
   university      |-> Get(obj.fields, "university"),
   department      |-> Get(obj.fields, "department"),
   research_topics |-> IF "research_topics" \in DOMAIN obj.fields
                         THEN obj.fields.research_topics ELSE NoTopics,
   summary         |-> Get(obj.fields, "summary")]

\* One pass of the loop body of lines 261-284: the records (none or one)
\* this result appends to all_professor_details.
ExtractDetail(result) ==
  IF ~(result.success /\ result.extracted_content.kind /= "empty") THEN <<>>
  ELSE LET extracted_list == result.extracted_content
           chosen == IF extracted_list.kind = "list" /\ extracted_list.items /= <<>>
                       THEN <<extracted_list.items[1]>>
                     ELSE IF extracted_list.kind = "dict" THEN <<extracted_list>>
                     ELSE <<>>
           professor_data == ProfessorSchema(chosen[1])
       IN  IF chosen = <<>> THEN <<>>
           ELSE IF ~ProfessorSchemaValid(chosen[1]) THEN <<>>
           ELSE IF ~validate_professor_data(professor_data) THEN <<>>
           ELSE <<professor_data>>

\* prof.model_dump(): the dict of the six fields
model_dump(prof) ==
  [name |-> prof.name, email |-> prof.email, university |-> prof.university,
   department |-> prof.department, research_topics |-> prof.research_topics,
   summary |-> prof.summary]

\* --------------------------------------------- add_professors_to_supabase

\* the dedup loop: keep a record when its email is truthy and not seen yet
RECURSIVE DedupLoop(_, _)
DedupLoop(profs, seen_emails) ==
  IF profs = <<>> THEN <<>>
  ELSE LET prof == Head(profs)
       IN  IF Truthy(prof.email) /\ prof.email \notin seen_emails
             THEN <<prof>> \o DedupLoop(Tail(profs), seen_emails \cup {prof.email})
             ELSE DedupLoop(Tail(profs), seen_emails)

\* the dedup loop with deduped_profs.insert(0, prof) for append(prof)
RECURSIVE DedupLoopPrepending(_, _)
DedupLoopPrepending(profs, seen_emails) ==
  IF profs = <<>> THEN <<>>
  ELSE LET prof == Head(profs)
       IN  IF Truthy(prof.email) /\ prof.email \notin seen_emails
             THEN DedupLoopPrepending(Tail(profs), seen_emails \cup {prof.email}) \o <<prof>>
             ELSE DedupLoopPrepending(Tail(profs), seen_emails)

DedupeBatchPrepending(filtered_profs) == DedupLoopPrepending(filtered_profs, {})

DedupeBatch(filtered_profs) == DedupLoop(filtered_profs, {})

\* filtered_profs = [prof for prof in professors if not is_junk_entry(prof)]
NotJunk(prof) == ~is_junk_entry(prof)

\* the batch passed on without the junk filter
KeepJunk(profs) == profs

\* the junk filter applied to the batch after the dedup loop has run on it
FilterAfterDedup(profs) == SelectSeq(DedupeBatch(profs), NotJunk)

\* line 34, which runs before the dedup loop of lines 37-45
FilterJunk(profs) == SelectSeq(profs, NotJunk)

\* emails = [prof.get("email") for prof in deduped_profs if prof.get("email")]
EmailsOf(deduped) ==
  LET WithEmail(prof) == Truthy(prof.email)
      EmailOf(prof) == prof.email
  IN  MapSeq(EmailOf, SelectSeq(deduped, WithEmail))

SeqRange(s) == {s[k] : k \in 1..Len(s)}

\* research_topics of the row: a str is split on commas, a non-list gives []
RECURSIVE StripNonEmpty(_)
StripNonEmpty(parts) ==
  IF parts = <<>> THEN <<>>
  ELSE (IF Strip(Head(parts)) /= <<>> THEN <<Strip(Head(parts))>> ELSE <<>>)
         \o StripNonEmpty(Tail(parts))

NormalizeTopics(research_topics) ==
  CASE research_topics.t = "str" -> StripNonEmpty(SplitComma(research_topics.v))
    [] research_topics.t = "list" -> research_topics.v
    [] OTHER -> <<>>

\* the row handed to upsert (lines 69-76)
RowOf(prof) ==
  [name |-> prof.name, email |-> prof.email, university |-> prof.university,
   department |-> prof.department,
   research_topics |-> NormalizeTopics(prof.research_topics),
   summary |-> prof.summary]

\* a select whose answer names no stored email
SelectNothing(rows, emails) == {}

\* select("email").in_("email", emails): the stored emails among emails
SelectExisting(rows, emails) == {r.email : r \in {x \in rows : x.email \in SeqRange(emails)}}

\* upsert(data, on_conflict=["email"]): the row with this email is replaced,
\* or the row is added
Upsert(rows, data) == {r \in rows : r.email /= data.email} \cup {data}

\* the loop's test without "or email in existing_emails"
SkipOnlyWithoutEmail(prof, existing) == ~Truthy(prof.email)

\* the loop's test: skip a record without email or already stored
SkipRecord(prof, existing) == ~Truthy(prof.email) \/ prof.email \in existing

\* ------------------------------------------------------------------ state

VARIABLES
  gemini_api_key,        \* os.getenv("GEMINI_API_KEY") is set
  directory_urls,        \* the argument of find_and_extract_professors
  run,                   \* which run of the script is executing
  pc,                    \* where find_and_extract_professors stands
  src,                   \* index of the directory the for loop is at
  discovered,            \* current_professor_links before the cap is applied
  profile_urls,          \* the URL list handed to arun_many
  results_container,     \* what arun_many returned, in the order it returned it
  all_professor_details, \* the aggregate list
  detail_urls,           \* directory index and result.url of each record of it
  crawl_calls,           \* directory indices crawler.arun was called for, this run
  extract_calls,         \* profile URLs crawler.arun_many was called for, per directory
  audit_writes,          \* times each run wrote professors_data.json
  store,                 \* rows of table scraped_professors
  spc,                   \* where each call of add_professors_to_supabase stands
  professors,            \* its argument
  deduped_profs,         \* its deduped_profs
  existing_emails,       \* its existing_emails
  idx,                   \* position of its final for loop in deduped_profs
  inserted,              \* its counter
  upsert_log,            \* the upsert calls it has sent, with their outcome
  lookup_calls,          \* select calls each run has sent
  store_errors,          \* store calls of each run that raised or confirmed nothing
  store_at_call,         \* rows of the table when each call was entered
  email_arg,             \* the argument of a call of is_valid_email
  email_result,          \* what that call returned, "none" before it returns
  professors_table,      \* rows of table professors, which scraper.py writes
  table_at_request,      \* its rows when the /scrape request came in
  faculty_cards,         \* soup.select(selectors["faculty_card"]), in page order
  endpoint_pc,           \* where the /scrape request stands
  card_at,               \* index of the card the for loop of scrape_and_store is at
  cards_inserted,        \* the counter inserted of scrape_and_store
  card_upserts,          \* the upsert calls of scrape_and_store, with their outcome
  response               \* what scrape_endpoint answered

scrape_vars ==
  <<run, pc, src, discovered, profile_urls, results_container,
    all_professor_details, detail_urls, crawl_calls, extract_calls,
    audit_writes>>

frame_vars == <<professors, store_at_call, deduped_profs, existing_emails, idx, inserted, upsert_log>>

call_vars == <<spc, frame_vars, lookup_calls, store_errors>>

\* the /scrape endpoint of main.py and scraper.py
endpoint_vars ==
  <<professors_table, table_at_request, faculty_cards, endpoint_pc, card_at,
    cards_inserted, card_upserts, response>>

vars ==
  <<gemini_api_key, directory_urls, scrape_vars, store, call_vars, email_arg, email_result,
    endpoint_vars>>

\* what no step of the pipeline assigns
env_vars == <<gemini_api_key, directory_urls, email_arg, email_result, endpoint_vars>>

\* the permutations of 1..n: the orders in which n results can come back
Perms(n) == {f \in [1..n -> 1..n] : \A i, j \in 1..n : f[i] = f[j] => i = j}

NoCall ==
  /\ spc = [p \in Runs |-> "idle"]
  /\ professors = [p \in Runs |-> <<>>]
  /\ store_at_call = [p \in Runs |-> {}]
  /\ deduped_profs = [p \in Runs |-> <<>>]
  /\ existing_emails = [p \in Runs |-> {}]
  /\ idx = [p \in Runs |-> 0]
  /\ inserted = [p \in Runs |-> 0]
  /\ upsert_log = [p \in Runs |-> <<>>]
  /\ lookup_calls = [p \in Runs |-> 0]
  /\ store_errors = [p \in Runs |-> 0]

\* no call of is_valid_email is under way
NoEmailCall == email_arg = None /\ email_result = "none"

\* no /scrape request has come in
NoRequest ==
  /\ professors_table = {}
  /\ table_at_request = {}
  /\ faculty_cards = <<>>
  /\ endpoint_pc = "idle"
  /\ card_at = 0
  /\ cards_inserted = 0
  /\ card_upserts = <<>>
  /\ response = [status |-> "none"]

Init ==
  /\ gemini_api_key \in BOOLEAN
  /\ directory_urls \in UNION {[1..n -> Directories] : n \in 1..MaxSources}
  /\ run = 1
  /\ pc = "start"
  /\ src = 0
  /\ discovered = <<>>
  /\ profile_urls = <<>>
  /\ results_container = <<>>
  /\ all_professor_details = <<>>
  /\ detail_urls = <<>>
  /\ crawl_calls = <<>>
  /\ extract_calls = <<>>
  /\ audit_writes = [r \in Runs |-> 0]
  /\ store = {}
  /\ NoCall
  /\ NoEmailCall
  /\ NoRequest

\* --------------------------------------------- find_and_extract_professors

\* lines 158-162: without the key the function returns at once
KeyMissing ==
  /\ pc = "start"
  /\ ~gemini_api_key
  /\ pc' = "done"
  /\ UNCHANGED <<env_vars, run, src, discovered, profile_urls, results_container,
                 all_professor_details, detail_urls, crawl_calls, extract_calls,
                 audit_writes, store, call_vars>>

\* the loop entered with the test of line 160 left out
EnterLoopUnchecked ==
  /\ pc = "start"
  /\ pc' = "directory"
  /\ src' = 1
  /\ all_professor_details' = <<>>
  /\ UNCHANGED <<env_vars, run, discovered, profile_urls, results_container,
                 detail_urls, crawl_calls, extract_calls,
                 audit_writes, store, call_vars>>

\* lines 164-174: the crawler is set up and the for loop entered
EnterLoop ==
  /\ pc = "start"
  /\ gemini_api_key
  /\ pc' = "directory"
  /\ src' = 1
  /\ all_professor_details' = <<>>
  /\ UNCHANGED <<env_vars, run, discovered, profile_urls, results_container,
                 detail_urls, crawl_calls, extract_calls,
                 audit_writes, store, call_vars>>

AtDirectory == pc = "directory" /\ src <= Len(directory_urls)

directory_result == DirectoryPage(directory_urls[src])

\* a "break" in place of the "continue": the loop is left
LeaveLoop ==
  /\ src' = Len(directory_urls) + 1
  /\ crawl_calls' = Append(crawl_calls, src)
  /\ extract_calls' = Append(extract_calls, <<>>)
  /\ UNCHANGED <<env_vars, run, pc, discovered, profile_urls, results_container,
                 all_professor_details, detail_urls,
                 audit_writes, store, call_vars>>

\* the "continue" of the for loop over directory_urls
NextDirectory ==
  /\ src' = src + 1
  /\ crawl_calls' = Append(crawl_calls, src)
  /\ extract_calls' = Append(extract_calls, <<>>)
  /\ UNCHANGED <<env_vars, run, pc, discovered, profile_urls, results_container,
                 all_professor_details, detail_urls,
                 audit_writes, store, call_vars>>

\* lines 192-196: the stage-1 crawl failed or extracted nothing
DirectoryFailed ==
  /\ AtDirectory
  /\ ~directory_result.success \/ directory_result.extracted_content.kind = "empty"
  /\ NextDirectory

\* lines 198-223, 238-241: the link output does not parse
LinksUnparsed ==
  /\ AtDirectory
  /\ directory_result.success /\ directory_result.extracted_content.kind /= "empty"
  /\ ~ParseLinks(directory_result.extracted_content).ok
  /\ NextDirectory

\* no link was found, and the "continue" of line 229 is missing: stage 2 is
\* entered with the empty list
NoLinksGoesOn ==
  /\ AtDirectory
  /\ directory_result.success /\ directory_result.extracted_content.kind /= "empty"
  /\ ParseLinks(directory_result.extracted_content).ok
  /\ ParseLinks(directory_result.extracted_content).links = <<>>
  /\ discovered' = <<>>
  /\ profile_urls' = <<>>
  /\ crawl_calls' = Append(crawl_calls, src)
  /\ pc' = "profiles"
  /\ UNCHANGED <<env_vars, run, src, results_container, all_professor_details,
                 detail_urls, extract_calls, audit_writes, store, call_vars>>

\* lines 227-229: no link was found
NoLinks ==
  /\ AtDirectory
  /\ directory_result.success /\ directory_result.extracted_content.kind /= "empty"
  /\ ParseLinks(directory_result.extracted_content).ok
  /\ ParseLinks(directory_result.extracted_content).links = <<>>
  /\ NextDirectory

\* str(prof.profile_url)
ProfileUrlOf(prof) == prof.profile_url

\* lines 225-236: links found, capped, turned into profile_urls
LinksFetched ==
  /\ AtDirectory
  /\ directory_result.success /\ directory_result.extracted_content.kind /= "empty"
  /\ LET parsed == ParseLinks(directory_result.extracted_content)
         current_professor_links == Truncate(parsed.links, MaxProfiles)
     IN  /\ parsed.ok
         /\ parsed.links /= <<>>
         /\ discovered' = parsed.links
         /\ profile_urls' = MapSeq(ProfileUrlOf, current_professor_links)
  /\ crawl_calls' = Append(crawl_calls, src)
  /\ pc' = "profiles"
  /\ UNCHANGED <<env_vars, run, src, results_container, all_professor_details,
                 detail_urls, extract_calls, audit_writes, store, call_vars>>

\* the results of urls in the order order[1], order[2], ...
RECURSIVE ResultsInOrder(_, _, _)
ResultsInOrder(urls, order, k) ==
  IF k > Len(urls) THEN <<>>
  ELSE << [url |-> urls[order[k]], result |-> DetailPage(urls[order[k]])] >>
         \o ResultsInOrder(urls, order, k + 1)

\* line 259: arun_many crawls the profile URLs concurrently; the results come
\* back in an order the code does not control
CrawlProfiles ==
  /\ pc = "profiles"
  /\ \E order \in Perms(Len(profile_urls)) :
        results_container' = ResultsInOrder(profile_urls, order, 1)
  /\ extract_calls' = Append(extract_calls, profile_urls)
  /\ pc' = "results"
  /\ UNCHANGED <<env_vars, run, src, discovered, profile_urls, all_professor_details,
                 detail_urls, crawl_calls, audit_writes, store, call_vars>>

\* the profile pages of the web above
ProfilePaths == {"p1", "p2", "p3", "p4", "p5", "p6", "p7", "p8", "p9", "p10", "p11", "p12"}

\* what lines 262-284 make of the result of each profile page
Extracted == [path \in ProfilePaths |-> ExtractDetail(DetailPage(Https(path)))]

\* the loop of lines 261-284 left at the first result that gives no record
RECURSIVE ExtractAllStopping(_)
ExtractAllStopping(results) ==
  IF results = <<>> THEN <<>>
  ELSE LET got == Extracted[Head(results).url.path]
       IN  IF got = <<>> THEN <<>>
           ELSE << [url |-> Head(results).url, prof |-> got[1]] >>
                  \o ExtractAllStopping(Tail(results))

\* the records the loop of lines 261-284 appends, with the URL of each
RECURSIVE ExtractAll(_)
ExtractAll(results) ==
  IF results = <<>> THEN <<>>
  ELSE LET got == Extracted[Head(results).url.path]
       IN  (IF got = <<>> THEN <<>> ELSE << [url |-> Head(results).url, prof |-> got[1]] >>)
             \o ExtractAll(Tail(results))

\* the records of the extracted pairs
RECURSIVE ProfsOf(_)
ProfsOf(got) ==
  IF got = <<>> THEN <<>> ELSE <<Head(got).prof>> \o ProfsOf(Tail(got))

\* the URLs of the extracted pairs, with the index of their directory
RECURSIVE UrlsOf(_, _)
UrlsOf(got, s) ==
  IF got = <<>> THEN <<>>
  ELSE << [src |-> s, url |-> Head(got).url] >> \o UrlsOf(Tail(got), s)

\* lines 261-284: every result is parsed and validated, the valid records
\* are appended in the order of results_container
ProcessResults ==
  /\ pc = "results"
  /\ all_professor_details' = all_professor_details \o ProfsOf(ExtractAll(results_container))
  /\ detail_urls' = detail_urls \o UrlsOf(ExtractAll(results_container), src)
  /\ src' = src + 1
  /\ pc' = "directory"
  /\ UNCHANGED <<env_vars, run, discovered, profile_urls, results_container,
                 crawl_calls, extract_calls, audit_writes, store, call_vars>>

\* line 320: nothing was collected
NothingCollected ==
  /\ pc = "directory"
  /\ src > Len(directory_urls)
  /\ all_professor_details = <<>>
  /\ pc' = "done"
  /\ UNCHANGED <<env_vars, run, src, discovered, profile_urls, results_container,
                 all_professor_details, detail_urls, crawl_calls, extract_calls,
                 audit_writes, store, call_vars>>

\* lines 290-317: final validation pass, the audit file, then the call of
\* add_professors_to_supabase(output_data)
SaveAndInsert ==
  /\ pc = "directory"
  /\ src > Len(directory_urls)
  /\ all_professor_details /= <<>>
  /\ LET valid_professors == SelectSeq(all_professor_details, validate_professor_data)
         output_data == MapSeq(model_dump, valid_professors)
     IN  IF valid_professors = <<>>
           THEN /\ pc' = "done"
                /\ UNCHANGED <<audit_writes, spc, professors, store_at_call>>
           ELSE /\ audit_writes' = [audit_writes EXCEPT ![run] = @ + 1]
                /\ spc' = [spc EXCEPT ![run] = "called"]
                /\ professors' = [professors EXCEPT ![run] = output_data]
                /\ store_at_call' = [store_at_call EXCEPT ![run] = store]
                /\ pc' = "inserting"
  /\ UNCHANGED <<env_vars, run, src, discovered, profile_urls, results_container,
                 all_professor_details, detail_urls, crawl_calls, extract_calls,
                 store, deduped_profs, existing_emails, idx, inserted,
                 upsert_log, lookup_calls, store_errors>>

\* line 318: the call returned, the count is printed
InsertReturned ==
  /\ pc = "inserting"
  /\ spc[run] = "returned"
  /\ pc' = "done"
  /\ UNCHANGED <<env_vars, run, src, discovered, profile_urls, results_container,
                 all_professor_details, detail_urls, crawl_calls, extract_calls,
                 audit_writes, store, call_vars>>

\* line 317: nothing catches an exception of the call; it ends the run
InsertRaised ==
  /\ pc = "inserting"
  /\ spc[run] = "raised"
  /\ pc' = "crashed"
  /\ UNCHANGED <<env_vars, run, src, discovered, profile_urls, results_container,
                 all_professor_details, detail_urls, crawl_calls, extract_calls,
                 audit_writes, store, call_vars>>

\* the script is run again on the same directories
NextRun ==
  /\ pc \in {"done", "crashed"}
  /\ run + 1 \in Runs
  /\ run' = run + 1
  /\ pc' = "start"
  /\ src' = 0
  /\ discovered' = <<>>
  /\ profile_urls' = <<>>
  /\ results_container' = <<>>
  /\ all_professor_details' = <<>>
  /\ detail_urls' = <<>>
  /\ crawl_calls' = <<>>
  /\ extract_calls' = <<>>
  \* the call frame of the run that ended is gone
  /\ spc' = [spc EXCEPT ![run] = "idle"]
  /\ professors' = [professors EXCEPT ![run] = <<>>]
  /\ store_at_call' = [store_at_call EXCEPT ![run] = {}]
  /\ deduped_profs' = [deduped_profs EXCEPT ![run] = <<>>]
  /\ existing_emails' = [existing_emails EXCEPT ![run] = {}]
  /\ idx' = [idx EXCEPT ![run] = 0]
  /\ inserted' = [inserted EXCEPT ![run] = 0]
  /\ upsert_log' = [upsert_log EXCEPT ![run] = <<>>]
  /\ UNCHANGED <<env_vars, audit_writes, store, lookup_calls, store_errors>>

\* --------------------------------------------- add_professors_to_supabase

Emails(p) == EmailsOf(DedupeBatch(FilterJunk(professors[p])))

\* lines 34-50: filter, dedup; no email left: return 0
NoEmails(p) ==
  /\ spc[p] = "called"
  /\ Emails(p) = <<>>
  /\ deduped_profs' = [deduped_profs EXCEPT ![p] = DedupeBatch(FilterJunk(professors[p]))]
  /\ spc' = [spc EXCEPT ![p] = "returned"]
  /\ UNCHANGED <<env_vars, scrape_vars, store, professors, store_at_call, existing_emails, idx,
                 inserted, upsert_log, lookup_calls, store_errors>>

\* lines 34-51: filter, dedup; the emails to look up
Prepared(p) ==
  /\ spc[p] = "called"
  /\ Emails(p) /= <<>>
  /\ deduped_profs' = [deduped_profs EXCEPT ![p] = DedupeBatch(FilterJunk(professors[p]))]
  /\ spc' = [spc EXCEPT ![p] = "lookup"]
  /\ UNCHANGED <<env_vars, scrape_vars, store, professors, store_at_call, existing_emails, idx,
                 inserted, upsert_log, lookup_calls, store_errors>>

\* a select that asks for the first email of the batch only
LookupFirstEmail(p) ==
  /\ spc[p] = "lookup"
  /\ existing_emails' =
       [existing_emails EXCEPT ![p] = SelectExisting(store, << EmailsOf(deduped_profs[p])[1] >>)]
  /\ lookup_calls' = [lookup_calls EXCEPT ![p] = @ + 1]
  /\ idx' = [idx EXCEPT ![p] = 1]
  /\ spc' = [spc EXCEPT ![p] = "loop"]
  /\ UNCHANGED <<env_vars, scrape_vars, store, professors, store_at_call, deduped_profs, inserted,
                 upsert_log, store_errors>>

\* lines 53-56: one select for all the emails of the batch
Lookup(p) ==
  /\ spc[p] = "lookup"
  /\ existing_emails' =
       [existing_emails EXCEPT ![p] = SelectExisting(store, EmailsOf(deduped_profs[p]))]
  /\ lookup_calls' = [lookup_calls EXCEPT ![p] = @ + 1]
  /\ idx' = [idx EXCEPT ![p] = 1]
  /\ spc' = [spc EXCEPT ![p] = "loop"]
  /\ UNCHANGED <<env_vars, scrape_vars, store, professors, store_at_call, deduped_profs, inserted,
                 upsert_log, store_errors>>

\* line 53: the select raises; nothing in the function catches it
LookupRaises(p) ==
  /\ spc[p] = "lookup"
  /\ lookup_calls' = [lookup_calls EXCEPT ![p] = @ + 1]
  /\ store_errors' = [store_errors EXCEPT ![p] = @ + 1]
  /\ spc' = [spc EXCEPT ![p] = "raised"]
  /\ UNCHANGED <<env_vars, scrape_vars, store, professors, store_at_call, deduped_profs,
                 existing_emails, idx, inserted, upsert_log>>

InLoop(p) == spc[p] = "loop" /\ idx[p] <= Len(deduped_profs[p])

\* the call of upsert(...).execute() for the record the loop is at
Logged(p, outcome) ==
  upsert_log' = [upsert_log EXCEPT ![p] =
                   Append(@, [data |-> RowOf(deduped_profs[p][idx[p]]),
                              at |-> idx[p], outcome |-> outcome])]

\* lines 58-61: a record without email or already stored is skipped
UpsertSkip(p) ==
  /\ InLoop(p)
  /\ SkipRecord(deduped_profs[p][idx[p]], existing_emails[p])
  /\ idx' = [idx EXCEPT ![p] = @ + 1]
  /\ UNCHANGED <<env_vars, scrape_vars, store, spc, professors, store_at_call, deduped_profs,
                 existing_emails, inserted, upsert_log, lookup_calls, store_errors>>

\* lines 63-85: the row is upserted and the store confirms it
UpsertOk(p) ==
  /\ InLoop(p)
  /\ ~SkipRecord(deduped_profs[p][idx[p]], existing_emails[p])
  /\ store' = Upsert(store, RowOf(deduped_profs[p][idx[p]]))
  /\ Logged(p, "ok")
  /\ inserted' = [inserted EXCEPT ![p] = @ + 1]
  /\ idx' = [idx EXCEPT ![p] = @ + 1]
  /\ UNCHANGED <<env_vars, scrape_vars, spc, professors, store_at_call, deduped_profs,
                 existing_emails, lookup_calls, store_errors>>

\* the answer without data with "inserted += 1" outside the else branch
UpsertNoDataCounted(p) ==
  /\ InLoop(p)
  /\ ~SkipRecord(deduped_profs[p][idx[p]], existing_emails[p])
  /\ Logged(p, "nodata")
  /\ store_errors' = [store_errors EXCEPT ![p] = @ + 1]
  /\ inserted' = [inserted EXCEPT ![p] = @ + 1]
  /\ idx' = [idx EXCEPT ![p] = @ + 1]
  /\ UNCHANGED <<env_vars, scrape_vars, store, spc, professors, store_at_call, deduped_profs,
                 existing_emails, lookup_calls>>

\* lines 79-83: the store answers without data; the failure is printed
UpsertNoData(p) ==
  /\ InLoop(p)
  /\ ~SkipRecord(deduped_profs[p][idx[p]], existing_emails[p])
  /\ Logged(p, "nodata")
  /\ store_errors' = [store_errors EXCEPT ![p] = @ + 1]
  /\ idx' = [idx EXCEPT ![p] = @ + 1]
  /\ UNCHANGED <<env_vars, scrape_vars, store, spc, professors, store_at_call, deduped_profs,
                 existing_emails, inserted, lookup_calls>>

\* line 79: execute() raises; nothing in the function catches it
UpsertRaises(p) ==
  /\ InLoop(p)
  /\ ~SkipRecord(deduped_profs[p][idx[p]], existing_emails[p])
  /\ Logged(p, "raise")
  /\ store_errors' = [store_errors EXCEPT ![p] = @ + 1]
  /\ spc' = [spc EXCEPT ![p] = "raised"]
  /\ UNCHANGED <<env_vars, scrape_vars, store, professors, store_at_call, deduped_profs,
                 existing_emails, idx, inserted, lookup_calls>>

\* lines 86-87: the loop is over, inserted is returned
Return(p) ==
  /\ spc[p] = "loop"
  /\ idx[p] > Len(deduped_profs[p])
  /\ spc' = [spc EXCEPT ![p] = "returned"]
  /\ UNCHANGED <<env_vars, scrape_vars, store, professors, store_at_call, deduped_profs,
                 existing_emails, idx, inserted, upsert_log, lookup_calls, store_errors>>

AddProfessors(p) ==
  \/ NoEmails(p)
  \/ Prepared(p)
  \/ Lookup(p)
  \/ LookupRaises(p)
  \/ UpsertSkip(p)
  \/ UpsertOk(p)
  \/ UpsertNoData(p)
  \/ UpsertRaises(p)
  \/ Return(p)

Scrape ==
  \/ KeyMissing
  \/ EnterLoop
  \/ DirectoryFailed
  \/ LinksUnparsed
  \/ NoLinks
  \/ LinksFetched
  \/ CrawlProfiles
  \/ ProcessResults
  \/ NothingCollected
  \/ SaveAndInsert
  \/ InsertReturned
  \/ InsertRaised
  \/ NextRun

Next == Scrape \/ \E p \in Runs : AddProfessors(p)

Spec == Init /\ [][Next]_vars

\* a step of the body of the for loop over directory_urls
LoopStep ==
  \/ DirectoryFailed
  \/ LinksUnparsed
  \/ NoLinks
  \/ LinksFetched
  \/ CrawlProfiles
  \/ ProcessResults

\* asyncio.run drives the coroutine on: the awaited crawl returns a result
\* and the coroutine is resumed, the synchronous steps between awaits run
FairSpec == Spec /\ WF_vars(LoopStep)

\* Two runs of the script whose calls of add_professors_to_supabase overlap
\* in time: each has its validated batch, the store calls interleave.

\* most records in a batch of the overlapping calls
MaxBatch == 2

\* records the pipeline hands over: validated by validate_professor_data
ValidatedRecords ==
  {model_dump(ExtractDetail(DetailPage(Https(path)))[1]) : path \in {"p1", "p2", "p3", "p8"}}

InitConc ==
  /\ gemini_api_key = TRUE
  /\ directory_urls = <<>>
  /\ run = 1
  /\ pc = "external"
  /\ src = 0
  /\ discovered = <<>>
  /\ profile_urls = <<>>
  /\ results_container = <<>>
  /\ all_professor_details = <<>>
  /\ detail_urls = <<>>
  /\ crawl_calls = <<>>
  /\ extract_calls = <<>>
  /\ audit_writes = [r \in Runs |-> 1]
  /\ store = {}
  /\ store_at_call = [p \in Runs |-> {}]
  /\ NoEmailCall
  /\ NoRequest
  /\ spc = [p \in Runs |-> "called"]
  /\ professors \in [Runs -> UNION {[1..n -> ValidatedRecords] : n \in 1..MaxBatch}]
  /\ deduped_profs = [p \in Runs |-> <<>>]
  /\ existing_emails = [p \in Runs |-> {}]
  /\ idx = [p \in Runs |-> 0]
  /\ inserted = [p \in Runs |-> 0]
  /\ upsert_log = [p \in Runs |-> <<>>]
  /\ lookup_calls = [p \in Runs |-> 0]
  /\ store_errors = [p \in Runs |-> 0]

NextConc == \E p \in Runs : AddProfessors(p)

SpecConc == InitConc /\ [][NextConc]_vars

\* A call of add_professors_to_supabase on a table that already holds rows,
\* with no other writer.

\* the rows earlier calls may have left in the table
StoredRows == {RowOf(r) : r \in ValidatedRecords}

\* the column email is the conflict target of the upsert: no two rows share it
Tables == {t \in SUBSET StoredRows : \A a, b \in t : a.email = b.email => a = b}

InitStored ==
  /\ gemini_api_key = TRUE
  /\ directory_urls = <<>>
  /\ run = 1
  /\ pc = "external"
  /\ src = 0
  /\ discovered = <<>>
  /\ profile_urls = <<>>
  /\ results_container = <<>>
  /\ all_professor_details = <<>>
  /\ detail_urls = <<>>
  /\ crawl_calls = <<>>
  /\ extract_calls = <<>>
  /\ audit_writes = [r \in Runs |-> IF r = 1 THEN 1 ELSE 0]
  /\ store \in Tables
  /\ store_at_call = [p \in Runs |-> IF p = 1 THEN store ELSE {}]
  /\ NoEmailCall
  /\ NoRequest
  /\ spc = [p \in Runs |-> IF p = 1 THEN "called" ELSE "idle"]
  /\ \E batch \in UNION {[1..n -> ValidatedRecords] : n \in 1..MaxBatch} :
        professors = [p \in Runs |-> IF p = 1 THEN batch ELSE <<>>]
  /\ deduped_profs = [p \in Runs |-> <<>>]
  /\ existing_emails = [p \in Runs |-> {}]
  /\ idx = [p \in Runs |-> 0]
  /\ inserted = [p \in Runs |-> 0]
  /\ upsert_log = [p \in Runs |-> <<>>]
  /\ lookup_calls = [p \in Runs |-> 0]
  /\ store_errors = [p \in Runs |-> 0]

NextStored == AddProfessors(1)

SpecStored == InitStored /\ [][NextStored]_vars

\* A call of is_valid_email on its own, for every argument of a bounded set.

\* longest generated argument
MaxEmailLen == 7

EmailAlphabet == {"a", "1", "@", "."}

\* addresses as the extraction backend may return them
SampleEmails ==
  { <<"j", "o", "@", "g", "m", "u", ".", "e", "d", "u">>, <<"J", "O", "@", "G", "M", "U", ".", "E", "D", "U">>, <<"j", "o", "@", "t", "e", "s", "t", ".", "c", "o", "m">>, <<"j", "o", "@", "m", "y", "t", "e", "s", "t", ".", "c", "o", "m">>, <<"j", "o", "@", "E", "x", "a", "m", "p", "l", "e", ".", "C", "o", "m">>,
    <<"t", "e", "s", "t", ".", "c", "o", "m", "@", "g", "m", "u", ".", "e", "d", "u">>, <<"a", "@", "g", "m", "u", ".", "e", "d", "u">>, <<"1", "2", "@", "g", "m", "u", ".", "e", "d", "u">>, <<"j", ".", "o", "+", "x", "@", "c", "s", ".", "g", "m", "u", ".", "e", "d", "u">>, <<"j", "o", "@", "g", "m", "u", ".", "e">>,
    <<"j", "o", "@", "g", "m", "u", ".", "e", "d", "u", "\n">>, <<" ", "j", "o", "@", "g", "m", "u", ".", "e", "d", "u">>, <<"j", "o", "@", "l", "o", "r", "e", "m", ".", "i", "p", "s", "u", "m">>, <<"j", "o", "@", "g", "m", "u">> }

EmailInputs == SampleEmails \cup UNION {[1..n -> EmailAlphabet] : n \in 0..MaxEmailLen}

InitEmail ==
  /\ gemini_api_key = TRUE
  /\ directory_urls = <<>>
  /\ run = 1
  /\ pc = "external"
  /\ src = 0
  /\ discovered = <<>>
  /\ profile_urls = <<>>
  /\ results_container = <<>>
  /\ all_professor_details = <<>>
  /\ detail_urls = <<>>
  /\ crawl_calls = <<>>
  /\ extract_calls = <<>>
  /\ audit_writes = [r \in Runs |-> 0]
  /\ store = {}
  /\ NoCall
  /\ email_arg \in EmailInputs
  /\ NoRequest
  /\ email_result = "none"

\* lines 23-54: the call returns True or False
CallIsValidEmail ==
  /\ email_result = "none"
  /\ email_result' = IF is_valid_email(email_arg) THEN "True" ELSE "False"
  /\ UNCHANGED <<gemini_api_key, directory_urls, scrape_vars, store, call_vars, email_arg,
                 endpoint_vars>>

NextEmail == CallIsValidEmail

SpecEmail == InitEmail /\ [][NextEmail]_vars

\* ------------------------------------------------- scraper.py and main.py

\* what no step of the /scrape request assigns
pipeline_vars ==
  <<gemini_api_key, directory_urls, scrape_vars, store, call_vars, email_arg, email_result>>

\* most faculty cards on the page of one request
MaxCards == 3

\* [\w\.-]
IsEmailChar(c) == IsAlpha(c) \/ c \in DigitChars \/ c \in {"_", ".", "-"}

\* re.search(r'[\w\.-]+@[\w\.-]+', text): the leftmost match, each run greedy
extract_email(text) ==
  LET ats == {a \in 2..(Len(text) - 1) :
                text[a] = "@" /\ IsEmailChar(text[a - 1]) /\ IsEmailChar(text[a + 1])}
  IN  IF ats = {} THEN None
      ELSE LET a == SetMin(ats)
               first == SetMin({i \in 1..(a - 1) : \A j \in i..(a - 1) : IsEmailChar(text[j])})
               last == SetMax({i \in (a + 1)..Len(text) : \A j \in (a + 1)..i : IsEmailChar(text[j])})
           IN  SubSeq(text, first, last)

\* a card: the text of the element each selector finds in it, None when it
\* finds none, and the text of the whole card
Card(name_el, email_el, title_el, text) ==
  [name_el |-> name_el, email_el |-> email_el, title_el |-> title_el, text |-> text]

\* email_el is the selected element or else the first string with an "@",
\* so a card without email_el has no "@" in its text
SampleCards ==
  { Card(<<"J", "o", " ", "L", "i">>, <<"j", "o", "@", "g", "m", "u", ".", "e", "d", "u">>, <<"P", "r", "o", "f">>,
         <<"J", "o", " ", "L", "i", "j", "o", "@", "g", "m", "u", ".", "e", "d", "u", "P", "r", "o", "f">>),
    Card(<<" ", "A", "l", " ", "B", "o", "\n">>, <<" ", "a", "l", "@", "g", "m", "u", ".", "e", "d", "u">>, None,
         <<" ", "A", "l", " ", "B", "o", "\n", " ", "a", "l", "@", "g", "m", "u", ".", "e", "d", "u">>),
    Card(<<"C", "y", " ", "D", "o">>, <<"j", "o", "@", "g", "m", "u", ".", "e", "d", "u">>, None,
         <<"C", "y", " ", "D", "o", "j", "o", "@", "g", "m", "u", ".", "e", "d", "u">>),
    Card(None, <<"e", "d", "@", "g", "m", "u", ".", "e", "d", "u">>, <<"P", "r", "o", "f">>,
         <<"e", "d", "@", "g", "m", "u", ".", "e", "d", "u", "P", "r", "o", "f">>),
    Card(<<"E", "d", " ", "F", "u">>, None, None, <<"E", "d", " ", "F", "u">>),
    Card(<<" ", " ">>, <<"g", "h", "@", "g", "m", "u", ".", "e", "d", "u">>, None,
         <<" ", " ", "g", "h", "@", "g", "m", "u", ".", "e", "d", "u">>) }

\* lines 26-28: get_text(strip=True) of the element, or None
CardName(card) == IF card.name_el /= None THEN Strip(card.name_el) ELSE None

CardEmail(card) ==
  IF card.email_el /= None THEN Strip(card.email_el) ELSE extract_email(card.text)

CardTitle(card) == IF card.title_el /= None THEN Strip(card.title_el) ELSE None

\* line 30: if name and email
Qualifies(card) == Truthy(CardName(card)) /\ Truthy(CardEmail(card))

\* lines 31-37, with the university and department of the request
CardData(card) ==
  [name |-> CardName(card), email |-> CardEmail(card), title |-> CardTitle(card),
   university |-> <<"G", "M", "U">>, department |-> <<"M", "a", "t", "h">>]

\* the tables a request may find: empty, or with a row of an earlier request
EarlierTables ==
  { {},
    { [name |-> <<"A", "l", "a", "n", " ", "B", "o">>, email |-> <<"a", "l", "@", "g", "m", "u", ".", "e", "d", "u">>,
       title |-> None, university |-> <<"G", "M", "U">>, department |-> <<"M", "a", "t", "h">>] } }

InitScrape ==
  /\ gemini_api_key = TRUE
  /\ directory_urls = <<>>
  /\ run = 1
  /\ pc = "external"
  /\ src = 0
  /\ discovered = <<>>
  /\ profile_urls = <<>>
  /\ results_container = <<>>
  /\ all_professor_details = <<>>
  /\ detail_urls = <<>>
  /\ crawl_calls = <<>>
  /\ extract_calls = <<>>
  /\ audit_writes = [r \in Runs |-> 0]
  /\ store = {}
  /\ NoCall
  /\ NoEmailCall
  /\ professors_table \in EarlierTables
  /\ table_at_request = professors_table
  /\ faculty_cards \in UNION {[1..n -> SampleCards] : n \in 0..MaxCards}
  /\ endpoint_pc = "called"
  /\ card_at = 0
  /\ cards_inserted = 0
  /\ card_upserts = <<>>
  /\ response = [status |-> "none"]

\* main.py line 18-19: the endpoint catches the exception and answers
ErrorResponse(message) == [status |-> "error", message |-> message]

\* scraper.py lines 11-20: the page is fetched and the cards are selected
FetchCards ==
  /\ endpoint_pc = "called"
  /\ endpoint_pc' = "loop"
  /\ card_at' = 1
  /\ UNCHANGED <<pipeline_vars, professors_table, table_at_request, faculty_cards,
                 cards_inserted, card_upserts, response>>

\* scraper.py line 16: requests.get raises
FetchRaises ==
  /\ endpoint_pc = "called"
  /\ endpoint_pc' = "answered"
  /\ response' = ErrorResponse("get failed")
  /\ UNCHANGED <<pipeline_vars, professors_table, table_at_request, faculty_cards, card_at,
                 cards_inserted, card_upserts>>

AtCard == endpoint_pc = "loop" /\ card_at <= Len(faculty_cards)

\* lines 22-28 raise (a selector the parser rejects): the endpoint answers
CardSelectRaises ==
  /\ AtCard
  /\ endpoint_pc' = "answered"
  /\ response' = ErrorResponse("select failed")
  /\ UNCHANGED <<pipeline_vars, professors_table, table_at_request, faculty_cards, card_at,
                 cards_inserted, card_upserts>>

\* line 30: the card has no name or no email: nothing is sent
CardSkipped ==
  /\ AtCard
  /\ ~Qualifies(faculty_cards[card_at])
  /\ card_at' = card_at + 1
  /\ UNCHANGED <<pipeline_vars, professors_table, table_at_request, faculty_cards, endpoint_pc,
                 cards_inserted, card_upserts, response>>

\* lines 39-40: the upsert of the card's row returns
CardUpserted ==
  /\ AtCard
  /\ Qualifies(faculty_cards[card_at])
  /\ professors_table' = Upsert(professors_table, CardData(faculty_cards[card_at]))
  /\ cards_inserted' = cards_inserted + 1
  /\ card_upserts' = Append(card_upserts, [card |-> card_at, outcome |-> "ok"])
  /\ card_at' = card_at + 1
  /\ UNCHANGED <<pipeline_vars, table_at_request, faculty_cards, endpoint_pc, response>>

\* line 39 raises inside a try/except that goes on with the next card
CardUpsertRaisesGoesOn ==
  /\ AtCard
  /\ Qualifies(faculty_cards[card_at])
  /\ card_upserts' = Append(card_upserts, [card |-> card_at, outcome |-> "raised"])
  /\ card_at' = card_at + 1
  /\ UNCHANGED <<pipeline_vars, professors_table, table_at_request, faculty_cards, endpoint_pc,
                 cards_inserted, response>>

\* line 39 raises: scrape_and_store has no handler, scrape_endpoint answers
CardUpsertRaises ==
  /\ AtCard
  /\ Qualifies(faculty_cards[card_at])
  /\ card_upserts' = Append(card_upserts, [card |-> card_at, outcome |-> "raised"])
  /\ endpoint_pc' = "answered"
  /\ response' = ErrorResponse("upsert failed")
  /\ UNCHANGED <<pipeline_vars, professors_table, table_at_request, faculty_cards, card_at,
                 cards_inserted>>

\* scraper.py line 42 and main.py line 17
ScrapeReturns ==
  /\ endpoint_pc = "loop"
  /\ card_at > Len(faculty_cards)
  /\ endpoint_pc' = "answered"
  /\ response' = [status |-> "success", inserted |-> cards_inserted]
  /\ UNCHANGED <<pipeline_vars, professors_table, table_at_request, faculty_cards, card_at,
                 cards_inserted, card_upserts>>

NextScrape ==
  \/ FetchCards
  \/ FetchRaises
  \/ CardSelectRaises
  \/ CardSkipped
  \/ CardUpserted
  \/ CardUpsertRaises
  \/ ScrapeReturns

SpecScrape == InitScrape /\ [][NextScrape]_vars

\* ------------------------------------------------------------------ claims

\* the identity key the specification names: the email lower-cased and trimmed
NormalizedEmail(e) == Lower(Strip(OrEmpty(e)))

\* the call p has run its filter and dedup steps
Deduped(p) == spc[p] \in {"lookup", "loop", "returned", "raised"}

\* a is b with some elements left out, the order kept
RECURSIVE IsSubsequence(_, _)
IsSubsequence(a, b) ==
  IF a = <<>> THEN TRUE
  ELSE IF b = <<>> THEN FALSE
  ELSE IF Head(a) = Head(b) THEN IsSubsequence(Tail(a), Tail(b))
  ELSE IsSubsequence(a, Tail(b))

\* C1: the in-batch deduplication outputs at most one record per normalized
\* email (lower-cased, trimmed), the survivors in the order of the input.
C1_OnePerNormalizedEmail ==
  \A p \in Runs :
    Deduped(p) =>
      /\ \A i, j \in 1..Len(deduped_profs[p]) :
            NormalizedEmail(deduped_profs[p][i].email)
              = NormalizedEmail(deduped_profs[p][j].email) => i = j
      /\ IsSubsequence(deduped_profs[p], professors[p])

\* C2: the deduplication step applied to its own output returns that output
\* unchanged, and the output is never longer than the input.
C2_DedupIdempotent ==
  \A p \in Runs :
    Deduped(p) =>
      /\ DedupeBatch(deduped_profs[p]) = deduped_profs[p]
      /\ Len(deduped_profs[p]) <= Len(FilterJunk(professors[p]))

\* C2's case: the step dropped a duplicate and kept two records or more
C2_Witness ==
  \E p \in Runs :
    /\ Deduped(p)
    /\ Len(deduped_profs[p]) >= 2
    /\ Len(deduped_profs[p]) < Len(FilterJunk(professors[p]))

\* the records the loop of call p has gone past
Passed(p) == SubSeq(deduped_profs[p], 1, idx[p] - 1)

\* the rows call p has sent to upsert
UpsertedRows(p) == {upsert_log[p][k].data : k \in 1..Len(upsert_log[p])}

\* C3: no record whose normalized email is in the existing set is upserted,
\* and every other record of the batch is upserted with its name, email,
\* university, department and summary unchanged.
C3_SkipsByNormalizedEmail ==
  \A p \in Runs :
    spc[p] \in {"loop", "returned"} =>
      LET existing_keys == {NormalizedEmail(e) : e \in existing_emails[p]}
      IN  /\ \A row \in UpsertedRows(p) : NormalizedEmail(row.email) \notin existing_keys
          /\ \A k \in 1..Len(Passed(p)) :
                LET prof == Passed(p)[k]
                IN  NormalizedEmail(prof.email) \notin existing_keys =>
                      \E row \in UpsertedRows(p) :
                        /\ row.name = prof.name
                        /\ row.email = prof.email
                        /\ row.university = prof.university
                        /\ row.department = prof.department
                        /\ row.summary = prof.summary

\* C4: a record whose email is missing or empty is never passed to upsert:
\* none passes validation into the aggregate list, none is in the batch
\* handed to add_professors_to_supabase, none is in an upsert call.
C4_NoUpsertWithoutEmail ==
  /\ \A k \in 1..Len(all_professor_details) : Truthy(all_professor_details[k].email)
  /\ \A p \in Runs :
        /\ \A k \in 1..Len(professors[p]) : Truthy(professors[p][k].email)
        /\ \A k \in 1..Len(upsert_log[p]) : Truthy(upsert_log[p][k].data.email)

\* C4's case: a profile of this run was extracted without email, and the run
\* has upserted a record
C4_Witness ==
  /\ \E i \in 1..Len(extract_calls) : \E k \in 1..Len(extract_calls[i]) :
        LET content == DetailPage(extract_calls[i][k]).extracted_content
        IN  /\ content.kind = "dict"
            /\ ProfessorSchemaValid(content)
            /\ ~Truthy(ProfessorSchema(content).email)
  /\ upsert_log[run] /= <<>>

C6_OneRowPerNormalizedEmail ==
  \A r1, r2 \in store :
    NormalizedEmail(r1.email) = NormalizedEmail(r2.email) => r1 = r2

\* the directory at index i was given up in stage 1
GivenUp(i) ==
  LET res == DirectoryPage(directory_urls[i])
  IN  \/ ~res.success
      \/ res.extracted_content.kind = "empty"
      \/ ~ParseLinks(res.extracted_content).ok
      \/ ParseLinks(res.extracted_content).links = <<>>

\* the profile URLs of directory i that yield a validated record
YieldingUrls(i) ==
  IF GivenUp(i) THEN {}
  ELSE LET links == ParseLinks(DirectoryPage(directory_urls[i]).extracted_content).links
           n == IF Len(links) < MaxProfiles THEN Len(links) ELSE MaxProfiles
       IN  {links[k].profile_url : k \in {j \in 1..n :
                                            ExtractDetail(DetailPage(links[j].profile_url)) /= <<>>}}

\* the for loop over directory_urls is over
LoopOver == pc = "directory" /\ src > Len(directory_urls)

\* every directory was crawled and the records of each are in the aggregate
AllAggregated ==
  /\ crawl_calls = [i \in 1..Len(directory_urls) |-> i]
  /\ {<<detail_urls[k].src, detail_urls[k].url>> : k \in 1..Len(detail_urls)}
       = {<<i, u>> : i \in 1..Len(directory_urls), u \in UNION {YieldingUrls(j) : j \in 1..Len(directory_urls)}}
           \cap UNION {{<<i, u>> : u \in YieldingUrls(i)} : i \in 1..Len(directory_urls)}
  /\ Len(all_professor_details) = Len(detail_urls)

\* C7: whatever the outcome of an earlier source, the stage-1 crawl of every
\* later source is eventually issued, and when the loop is over the records
\* of the successful sources are aggregated.
C7_LaterSourcesStarted ==
  /\ [](LoopOver => AllAggregated)
  /\ \A r \in Runs : \A i \in 1..MaxSources :
        (run = r /\ pc = "directory" /\ i <= Len(directory_urls))
          ~> (run = r /\ \E k \in 1..Len(crawl_calls) : crawl_calls[k] = i)

\* C7's case: an earlier source was given up, a later one was crawled and its
\* records are in the aggregate
C7_Witness ==
  /\ LoopOver
  /\ \E i, j \in 1..Len(directory_urls) :
        /\ i < j
        /\ GivenUp(i)
        /\ \E k \in 1..Len(detail_urls) : detail_urls[k].src = j

\* C8: the profile URLs handed to stage 2 are the first min(cap, n) of the n
\* discovered links in discovery order, and no stage-2 call is started for a
\* link beyond the cap.
C8_FirstCapLinks ==
  pc \in {"profiles", "results"} =>
     LET n == Len(discovered)
         m == IF n < MaxProfiles THEN n ELSE MaxProfiles
     IN  /\ Len(profile_urls) = m
         /\ \A k \in 1..m : profile_urls[k] = discovered[k].profile_url
         /\ pc = "results" =>
              /\ extract_calls[src] = profile_urls
              /\ Len(results_container) = m
              /\ \A k \in 1..m : \E j \in 1..m : results_container[k].url = profile_urls[j]

\* C8's case: more links discovered than the cap, stage 2 called
C8_Witness == pc = "results" /\ Len(discovered) > MaxProfiles

\* position of url u in the list urls
PositionIn(urls, u) == CHOOSE k \in 1..Len(urls) : urls[k] = u

\* C9: within a source, the detail records appended to the aggregate list
\* are in the discovery order of their profile URLs.
C9_DiscoveryOrder ==
  \A a, b \in 1..Len(detail_urls) :
    (a < b /\ detail_urls[a].src = detail_urls[b].src) =>
       PositionIn(extract_calls[detail_urls[a].src], detail_urls[a].url)
         < PositionIn(extract_calls[detail_urls[b].src], detail_urls[b].url)

\* C10: when the upsert of one record raises or returns no confirmation and
\* records remain after it, the call goes on to them and the run is not
\* aborted.
C10_UpsertFailureIsLocal ==
  \A p \in Runs :
    (\E k \in 1..Len(upsert_log[p]) :
        /\ upsert_log[p][k].outcome \in {"raise", "nodata"}
        /\ upsert_log[p][k].at < Len(deduped_profs[p])) =>
       /\ spc[p] \in {"loop", "returned"}
       /\ (p = run => pc /= "crashed")

\* C11: without GEMINI_API_KEY the run ends with no crawl, extraction or
\* store call and no audit file; with the key, a run ends only after every
\* source was crawled, whatever failed on the way, and ends abnormally only
\* when a store call raised.
C11_OnlyMissingKeyEndsRun ==
  /\ ~gemini_api_key =>
        /\ pc \in {"start", "done"}
        /\ crawl_calls = <<>>
        /\ extract_calls = <<>>
        /\ \A p \in Runs :
              /\ spc[p] = "idle"
              /\ lookup_calls[p] = 0
              /\ upsert_log[p] = <<>>
              /\ audit_writes[p] = 0
  /\ (gemini_api_key /\ pc \in {"inserting", "done", "crashed"}) =>
        /\ crawl_calls = [i \in 1..Len(directory_urls) |-> i]
        /\ Len(extract_calls) = Len(directory_urls)
        /\ pc = "crashed" => store_errors[run] > 0

\* C11's case: the key is missing and the second run has ended like the first
C11_Witness == ~gemini_api_key /\ run = 2 /\ pc = "done"

\* the rows of the table whose email was not in it when call p was entered
NewRows(p) == {r \in store : r.email \notin {x.email : x \in store_at_call[p]}}

\* C12: the count add_professors_to_supabase returns is the number of rows
\* the call created: rows present after it with an email not present before.
C12_CountIsNewRows ==
  \A p \in Runs : spc[p] = "returned" => inserted[p] = Cardinality(NewRows(p))

\* C12's case: a call entered on a table that held rows of its batch has
\* returned after creating a row
C12_Witness ==
  \E p \in Runs :
    /\ spc[p] = "returned"
    /\ inserted[p] >= 1
    /\ existing_emails[p] /= {}

\* s.split('@')[1] of a string with one "@"
AfterFirst(s, sep) ==
  LET at == {i \in 1..Len(s) : s[i] = sep}
  IN  IF at = {} THEN <<>> ELSE SubSeq(s, SetMin(at) + 1, Len(s))

\* C13 as stated: an email that matches the address-syntax pattern and whose
\* domain is not a denylisted placeholder domain is accepted.
C13_SyntaxAndDomainSuffice ==
  (/\ email_result /= "none"
   /\ MatchesEmailPattern(email_arg)
   /\ Lower(AfterFirst(email_arg, "@")) \notin fake_patterns)
    => email_result = "True"

\* C13 amended: an email that matches the pattern, contains no denylisted
\* placeholder domain anywhere in its lower-cased form, and has a local part
\* of at least 2 characters that is not purely numeric is accepted.
C13_PlausibleEmailAccepted ==
  (/\ email_result /= "none"
   /\ MatchesEmailPattern(email_arg)
   /\ \A p \in fake_patterns : ~Contains(Lower(email_arg), p)
   /\ Len(BeforeFirst(email_arg, "@")) >= 2
   /\ ~IsDigitStr(BeforeFirst(email_arg, "@")))
    => email_result = "True"

\* C13's case: the call accepted an address with a local part of 2 characters
C13_Witness ==
  /\ email_result = "True"
  /\ Len(BeforeFirst(email_arg, "@")) = 2

\* where directory i stands in the run, in the specification's states
SourceState(i) ==
  IF i > src \/ (i = src /\ pc = "directory") THEN "PENDING"
  ELSE IF i = src /\ pc = "profiles" THEN "LINKS_FETCHED"
  ELSE IF i = src /\ pc = "results" THEN "DETAILS_FETCHED"
  ELSE IF \E k \in 1..Len(detail_urls) : detail_urls[k].src = i THEN "DONE"
  ELSE "ABORTED"

\* the moves the specification allows a source
SourceMoves ==
  { <<"PENDING", "LINKS_FETCHED">>, <<"LINKS_FETCHED", "DETAILS_FETCHED">>,
    <<"DETAILS_FETCHED", "DONE">>, <<"PENDING", "ABORTED">>,
    <<"LINKS_FETCHED", "ABORTED">>, <<"DETAILS_FETCHED", "ABORTED">> }

\* a given-up source never enters stage 2 and ends ABORTED with no stage-2
\* call and no record
GivenUpIsAborted ==
  \A i \in 1..Len(directory_urls) :
    GivenUp(i) =>
      /\ SourceState(i) \in {"PENDING", "ABORTED"}
      /\ i < src => /\ SourceState(i) = "ABORTED"
                    /\ extract_calls[i] = <<>>
                    /\ \A k \in 1..Len(detail_urls) : detail_urls[k].src /= i

\* C14: within a run each source moves only along PENDING -> LINKS_FETCHED
\* -> DETAILS_FETCHED -> DONE or into ABORTED; a source whose stage-1 crawl
\* failed, extracted nothing or did not parse is ABORTED with no stage-2
\* call, and a source without extracted details ends ABORTED with no record
\* in the aggregate list.
C14_SourceStateMachine ==
  /\ []GivenUpIsAborted
  /\ [][run' = run =>
          \A i \in 1..Len(directory_urls) :
            \/ SourceState(i)' = SourceState(i)
            \/ <<SourceState(i), SourceState(i)'>> \in SourceMoves]_vars

\* C14's case: the loop is over, one source went through stage 2 and ended
\* ABORTED for want of details, another ended DONE
C14_Witness ==
  /\ LoopOver
  /\ \E i, j \in 1..Len(directory_urls) :
        /\ ~GivenUp(i)
        /\ SourceState(i) = "ABORTED"
        /\ SourceState(j) = "DONE"

\* the link items of a stage-1 output that validate as ProfessorLink, for
\* either shape of the output
ValidLinkItems(raw_data) ==
  CASE raw_data.kind = "list" -> LinksOfItems(raw_data.items)
    [] raw_data.kind = "dict" /\ "professors" \in DOMAIN raw_data.fields ->
         ValidLinksOf(raw_data.fields.professors)
    [] OTHER -> <<>>

\* the profile URLs stage 2 has to get for directory i: the valid link items
\* of its output, up to the cap
DueUrls(i) ==
  LET res == DirectoryPage(directory_urls[i])
  IN  IF ~res.success \/ res.extracted_content.kind = "empty" THEN <<>>
      ELSE MapSeq(ProfileUrlOf, Truncate(ValidLinkItems(res.extracted_content), MaxProfiles))

\* C15: for either shape of stage-1 output, a link item that fails validation
\* is the only one skipped: the valid items of the same output are the
\* candidate links and go to stage 2.
C15_InvalidLinkSkippedAlone ==
  \A i \in 1..Len(directory_urls) :
    /\ (i = src /\ pc \in {"profiles", "results"}) => profile_urls = DueUrls(i)
    /\ i < src => extract_calls[i] = DueUrls(i)

\* the URL and the record of every entry of the aggregate list that came
\* from directory i
RecordsOf(i) ==
  {<<detail_urls[k].url, all_professor_details[k]>> :
     k \in {j \in 1..Len(detail_urls) : detail_urls[j].src = i}}

\* the JSON value a record is built from: the first element of a non-empty
\* list, the mapping itself
ChosenElement(content) ==
  IF content.kind = "list" THEN content.items[1] ELSE content

BatchEmailsInStore(p) ==
  {e \in SeqRange(EmailsOf(deduped_profs[p])) : e \in {x.email : x \in store_at_call[p]}}

\* C17: a call sends at most one lookup of existing emails, whatever the
\* number of records, and the lookup covers every email of the deduplicated
\* batch: its answer is the set of all batch emails the table holds.
C17_OneLookupForAllEmails ==
  \A p \in Runs :
    /\ lookup_calls[p] <= 1
    /\ spc[p] \in {"loop", "returned"} /\ lookup_calls[p] = 1 =>
          existing_emails[p] = BatchEmailsInStore(p)
    /\ spc[p] \in {"loop", "returned", "raised"} /\ deduped_profs[p] /= <<>>
          /\ EmailsOf(deduped_profs[p]) /= <<>> => lookup_calls[p] = 1

\* C17's case: the lookup of a batch of two emails, both already stored
C17_Witness ==
  \E p \in Runs :
    /\ spc[p] = "loop" /\ lookup_calls[p] = 1
    /\ Len(EmailsOf(deduped_profs[p])) = 2
    /\ Cardinality(existing_emails[p]) = 2

\* C18: the records that survive filtering and deduplication go to the
\* store in a single upsert call for the whole batch, so a call sends at
\* most one upsert whatever the number of records.
C18_SingleUpsertPerRun ==
  \A p \in Runs : Len(upsert_log[p]) <= 1

\* C19: every record the pipeline passes to the store upsert has a name
\* accepted by is_valid_name, an email accepted by is_valid_email, and is not
\* junk under is_junk_entry.
C19_UpsertedRecordsAreClean ==
  \A p \in Runs : \A k \in 1..Len(upsert_log[p]) :
    LET data == upsert_log[p][k].data
    IN  /\ is_valid_name(data.name)
        /\ is_valid_email(data.email)
        /\ ~is_junk_entry(data)
        /\ data.name \notin placeholder_names
        /\ data.email \notin placeholder_emails
        /\ Contains(data.email, <<"@">>)
        /\ ~StartsWith(data.email, <<"N", "/", "A">>)
        /\ \A x \in not_found_markers : ~Contains(Lower(OrEmpty(data.summary)), x)

\* C19's case: a call whose batch held a junk record that passed validation
\* has sent an upsert
C19_Witness ==
  \E p \in Runs :
    /\ upsert_log[p] /= <<>>
    /\ \E k \in 1..Len(professors[p]) :
          is_junk_entry(professors[p][k]) /\ validate_professor_data(professors[p][k])

\* record k of the batch of call p is not junk, has an email, and no
\* earlier non-junk record of the batch has that email
FirstCleanOfEmail(p, k) ==
  LET prof == professors[p][k]
  IN  /\ ~is_junk_entry(prof)
      /\ Truthy(prof.email)
      /\ \A j \in 1..(k - 1) :
            is_junk_entry(professors[p][j]) \/ professors[p][j].email /= prof.email

\* a junk record with the email of record k comes before it in the batch
JunkPrecedes(p, k) ==
  \E j \in 1..(k - 1) :
    is_junk_entry(professors[p][j]) /\ professors[p][j].email = professors[p][k].email

\* C20: the junk filter runs before the dedup: a non-junk record is kept in
\* the deduplicated batch even when a junk record with the same email comes
\* before it, and it stays eligible for upsert: the call that returns has
\* upserted it unless the lookup found its email in the table.
C20_JunkDoesNotShadow ==
  \A p \in Runs : Deduped(p) =>
    \A k \in 1..Len(professors[p]) : FirstCleanOfEmail(p, k) =>
      /\ \E n \in 1..Len(deduped_profs[p]) : deduped_profs[p][n] = professors[p][k]
      /\ (spc[p] = "returned" /\ professors[p][k].email \notin existing_emails[p]) =>
            \E n \in 1..Len(upsert_log[p]) : upsert_log[p][n].data = RowOf(professors[p][k])

\* C20's case: a call has returned after the upsert of a record that a junk
\* record with the same email preceded in the batch
C20_Witness ==
  \E p \in Runs : \E k \in 1..Len(professors[p]) :
    /\ spc[p] = "returned"
    /\ FirstCleanOfEmail(p, k) /\ JunkPrecedes(p, k)
    /\ \E n \in 1..Len(upsert_log[p]) : upsert_log[p][n].data = RowOf(professors[p][k])

\* C21: a call never writes a row whose email its lookup returned, and with
\* no other writer every row the table held at lookup time is still in the
\* table with all its field values, during and after the call.
C21_ExistingRowsUntouched ==
  \A p \in Runs : spc[p] \in {"loop", "returned", "raised"} =>
    /\ \A k \in 1..Len(upsert_log[p]) : upsert_log[p][k].data.email \notin existing_emails[p]
    /\ \A r \in store_at_call[p] : r \in store

\* C21's case: the call has returned after an upsert, and its batch held a
\* record with the email of a stored row and other field values
C21_Witness ==
  \E p \in Runs :
    /\ spc[p] = "returned" /\ upsert_log[p] /= <<>>
    /\ \E r \in store_at_call[p] : \E k \in 1..Len(deduped_profs[p]) :
          deduped_profs[p][k].email = r.email /\ RowOf(deduped_profs[p][k]) /= r

\* the indices of the qualifying cards among the first n, in page order
RECURSIVE QualifyingUpTo(_)
QualifyingUpTo(n) ==
  IF n <= 0 THEN <<>>
  ELSE QualifyingUpTo(n - 1) \o (IF Qualifies(faculty_cards[n]) THEN <<n>> ELSE <<>>)

\* the table after the rows of the cards at indices have been upserted in turn
RECURSIVE UpsertedInTurn(_, _)
UpsertedInTurn(rows, indices) ==
  IF indices = <<>> THEN rows
  ELSE UpsertedInTurn(Upsert(rows, CardData(faculty_cards[Head(indices)])), Tail(indices))

\* the last upsert of the request raised
UpsertRaised ==
  card_upserts /= <<>> /\ card_upserts[Len(card_upserts)].outcome = "raised"

\* C22: scrape_and_store upserts the cards with a name and an email one at a
\* time in page order; when the upsert of the k-th of them raises, the rows
\* of the first k-1 stay in the table, no later card is upserted, and the
\* endpoint answers with status error and a message, without inserted.
C22_UpsertFailureEndsRequest ==
  LET passed == QualifyingUpTo(IF card_at = 0 THEN 0 ELSE card_at - 1)
      sent == [k \in 1..Len(card_upserts) |-> card_upserts[k].card]
  IN  /\ sent = passed \o (IF UpsertRaised THEN <<card_at>> ELSE <<>>)
      /\ \A k \in 1..(Len(card_upserts) - 1) : card_upserts[k].outcome = "ok"
      /\ cards_inserted = Len(passed)
      /\ professors_table = UpsertedInTurn(table_at_request, passed)
      /\ \A k \in 1..Len(passed) :
            (\A j \in (k + 1)..Len(passed) :
               CardEmail(faculty_cards[passed[j]]) /= CardEmail(faculty_cards[passed[k]]))
              => CardData(faculty_cards[passed[k]]) \in professors_table
      /\ UpsertRaised =>
            /\ endpoint_pc = "answered"
            /\ response.status = "error"
            /\ DOMAIN response = {"status", "message"}
      /\ response.status = "success" =>
            /\ ~UpsertRaised
            /\ response.inserted = Len(QualifyingUpTo(Len(faculty_cards)))

\* C22's case: the upsert of the second qualifying card raised, its first
\* row is in the table and a qualifying card comes after it on the page
C22_Witness ==
  /\ UpsertRaised
  /\ Len(card_upserts) = 2
  /\ CardData(faculty_cards[card_upserts[1].card]) \in professors_table
  /\ \E i \in (card_at + 1)..Len(faculty_cards) : Qualifies(faculty_cards[i])

====
